---- MODULE Spec2Model ----
(***************************************************************************)
(* simpleterm: the text core (text.rs), the message reflow of the          *)
(* terminal (terminal.rs) and the terminal's blocking event loops.         *)
(*                                                                         *)
(* Strings are sequences of one-character strings; only single-byte        *)
(* characters are drawn, so str::len() (bytes) and chars().count() agree.  *)
(* Instants and Durations are integers in milliseconds.                    *)
(***************************************************************************)
EXTENDS Integers, Naturals, Sequences, FiniteSets, TLC

VARIABLES
    call,       \* the pure function under test and its arguments
    ret,        \* its result; [kind |-> "pending"] before it is applied
    now,        \* wait_for_continue: the Instant of the latest frame
    start,      \* wait_for_continue: the Instant threaded through check_flash
    flash_on,   \* wait_for_continue: what check_flash returned for that frame
    term,       \* the Terminal struct
    run,        \* the Terminal method in progress, its loop and its locals
    last,       \* the method that returned last and what it returned
    screen,     \* the message lines of the frame drawn last
    build       \* the build profile: whether usize underflow panics

pureVars == <<call, ret>>
flashVars == <<now, start, flash_on>>
termVars == <<term, run, last, screen, build>>
vars == <<call, ret, now, start, flash_on, term, run, last, screen, build>>

----------------------------------------------------------------------------
(* Bounds of the instances explored.                                       *)

MaxWordLen == 5       \* longest word handed to split_word
MaxBudget == 3        \* largest first_split / rest_split
MaxMsgLen == 5        \* longest message handed to process_message
MaxCols == 4          \* largest max_chars
MaxElapsed == 1100    \* largest now - then handed to check_flash, in ms
ColorLevels == 2      \* a channel is one of 0/ColorLevels .. ColorLevels/ColorLevels
MaxArtRows == 2       \* most rows of an art block
MaxArtCols == 2       \* longest row of an art block
ClockHorizon == 5000  \* Instants are kept below this by moving their origin
MaxInput == 2         \* most characters the user types into wait_for_input

Letters == {"a", "b"}
MsgAlphabet == Letters \cup {" ", "\n", "\r"}

StringsUpTo(alphabet, n) == UNION {[1..k -> alphabet] : k \in 0..n}

----------------------------------------------------------------------------
(* text.rs: split_word                                                     *)

RECURSIVE Flatten(_)
Flatten(seqs) == IF seqs = <<>> THEN <<>> ELSE Head(seqs) \o Flatten(Tail(seqs))

\* SplitStep with the character at a fragment boundary dropped.
SplitStepDropsChar(st, c, first_split, rest_split) ==
    IF st.do_first
    THEN IF st.count >= first_split
         THEN [result |-> Append(st.result, st.current_string),
               current_string |-> <<>>,
               do_first |-> FALSE,
               count |-> 1]
         ELSE [st EXCEPT !.current_string = Append(@, c), !.count = @ + 1]
    ELSE IF st.count >= rest_split
         THEN [st EXCEPT !.result = Append(@, st.current_string),
                         !.current_string = <<>>,
                         !.count = 1]
         ELSE [st EXCEPT !.current_string = Append(@, c), !.count = @ + 1]

\* SplitStep with the budget comparisons off by one (> instead of >=).
SplitStepOffByOne(st, c, first_split, rest_split) ==
    IF st.do_first
    THEN IF st.count > first_split
         THEN [result |-> Append(st.result, st.current_string),
               current_string |-> <<c>>,
               do_first |-> FALSE,
               count |-> 1]
         ELSE [st EXCEPT !.current_string = Append(@, c), !.count = @ + 1]
    ELSE IF st.count > rest_split
         THEN [st EXCEPT !.result = Append(@, st.current_string),
                         !.current_string = <<c>>,
                         !.count = 1]
         ELSE [st EXCEPT !.current_string = Append(@, c), !.count = @ + 1]

\* One iteration of `for c in x.chars()`.
SplitStep(st, c, first_split, rest_split) ==
    IF st.do_first
    THEN IF st.count >= first_split
         THEN [result |-> Append(st.result, st.current_string),
               current_string |-> <<c>>,
               do_first |-> FALSE,
               count |-> 1]
         ELSE [st EXCEPT !.current_string = Append(@, c), !.count = @ + 1]
    ELSE IF st.count >= rest_split
         THEN [st EXCEPT !.result = Append(@, st.current_string),
                         !.current_string = <<c>>,
                         !.count = 1]
         ELSE [st EXCEPT !.current_string = Append(@, c), !.count = @ + 1]

RECURSIVE SplitLoop(_, _, _, _, _)
SplitLoop(x, i, st, first_split, rest_split) ==
    IF i > Len(x) THEN st
    ELSE SplitLoop(x, i + 1, SplitStep(st, x[i], first_split, rest_split),
                   first_split, rest_split)

split_word(x, first_split, rest_split) ==
    LET st0 == [result |-> <<>>, current_string |-> <<>>,
                do_first |-> TRUE, count |-> 0]
        st == SplitLoop(x, 1, st0, first_split, rest_split)
    IN Append(st.result, st.current_string)

----------------------------------------------------------------------------
(* terminal.rs: process_message                                            *)

\* The whitespace characters beyond the space, line feed and carriage return
\* of MsgAlphabet: tab, form feed, and, written as the characters themselves,
\* U+000B (vertical tab), U+0085 (next line), U+00A0 (no-break space) and
\* U+1680 (ogham space mark).
OtherWhitespace == {"\t", "\f", "", "", " ", " "}

\* char::is_whitespace, the Unicode White_Space property.  U+2000..U+200A,
\* U+2028, U+2029, U+202F, U+205F and U+3000 have the property too, but the
\* parser rejects them inside a string, so no message of the model holds
\* them.
IsWhitespace(c) == c \in {" ", "\n", "\r"} \cup OtherWhitespace

\* str::split('\n'): always at least one piece.
RECURSIVE SplitNewlineFrom(_, _, _)
SplitNewlineFrom(s, i, cur) ==
    IF i > Len(s) THEN <<cur>>
    ELSE IF s[i] = "\n" THEN <<cur>> \o SplitNewlineFrom(s, i + 1, <<>>)
    ELSE SplitNewlineFrom(s, i + 1, Append(cur, s[i]))

SplitNewline(s) == SplitNewlineFrom(s, 1, <<>>)

\* str::split_whitespace(): maximal runs of non-whitespace characters.
RECURSIVE SplitWhitespaceFrom(_, _, _)
SplitWhitespaceFrom(s, i, cur) ==
    IF i > Len(s) THEN (IF cur = <<>> THEN <<>> ELSE <<cur>>)
    ELSE IF IsWhitespace(s[i])
         THEN (IF cur = <<>> THEN <<>> ELSE <<cur>>) \o SplitWhitespaceFrom(s, i + 1, <<>>)
         ELSE SplitWhitespaceFrom(s, i + 1, Append(cur, s[i]))

SplitWhitespace(s) == SplitWhitespaceFrom(s, 1, <<>>)

\* usize is 64 bits wide; values stay far below 2^30 in every instance, so
\* the wrapped difference is represented modulo 2^30.
UsizeModulus == 1073741824

\* `max_chars - (message_len + 1)` in a build without overflow checks.
WrappingSub(a, b) == IF a >= b THEN a - b ELSE a - b + UsizeModulus

\* The body of `for word in old_message.split_whitespace()`.
\* overflow_checks: the build panics on usize underflow (debug profile)
\* instead of wrapping (release profile).
\* st.first_splits keeps, for every over-long word met with a non-empty
\* new_message, the difference max_chars - (message_len + 1) as an integer
\* and the line pushed for the first fragment (none after a panic).
ProcessWord(st, word, max_chars, overflow_checks) ==
    LET word_len == Len(word)
        message_len == Len(st.new_message)
    IN
    IF st.panicked THEN st
    ELSE IF word_len > max_chars
    THEN IF message_len > 0
         THEN IF message_len + 1 > max_chars /\ overflow_checks
              THEN [st EXCEPT !.panicked = TRUE,
                              !.first_splits = Append(@,
                                  [difference |-> max_chars - (message_len + 1),
                                   pushed |-> <<>>])]
              ELSE LET word_vec == split_word(word,
                                       WrappingSub(max_chars, message_len + 1),
                                       max_chars)
                       first_line == st.new_message \o <<" ">> \o Head(word_vec)
                       pushed == Append(st.new_message_vec, first_line)
                                 \o Tail(word_vec)
                   IN [st EXCEPT !.new_message_vec = SubSeq(pushed, 1, Len(pushed) - 1),
                                 !.new_message = pushed[Len(pushed)],
                                 !.first_splits = Append(@,
                                     [difference |-> max_chars - (message_len + 1),
                                      pushed |-> <<first_line>>])]
         ELSE [st EXCEPT !.new_message_vec = @ \o split_word(word, max_chars, max_chars)]
    ELSE IF message_len + word_len > max_chars
    THEN [st EXCEPT !.new_message_vec = Append(@, st.new_message),
                    !.new_message = word]
    ELSE IF message_len > 0
    THEN [st EXCEPT !.new_message = @ \o <<" ">> \o word]
    ELSE [st EXCEPT !.new_message = word]

RECURSIVE ProcessWords(_, _, _, _)
ProcessWords(words, st, max_chars, overflow_checks) ==
    IF words = <<>> THEN st
    ELSE ProcessWords(Tail(words),
                      ProcessWord(st, Head(words), max_chars, overflow_checks),
                      max_chars, overflow_checks)

\* ProcessParagraph with new_message carried over from the paragraph before.
ProcessParagraphCarriesOver(st, old_message, max_chars, overflow_checks) ==
    LET done == ProcessWords(SplitWhitespace(old_message), st,
                             max_chars, overflow_checks)
    IN IF done.panicked THEN done
       ELSE IF done.new_message /= <<>>
       THEN [done EXCEPT !.new_message_vec = Append(@, done.new_message)]
       ELSE done

\* The body of `for old_message in self.message.iter()`.
ProcessParagraph(st, old_message, max_chars, overflow_checks) ==
    LET done == ProcessWords(SplitWhitespace(old_message),
                             [st EXCEPT !.new_message = <<>>],
                             max_chars, overflow_checks)
    IN IF done.panicked THEN done
       ELSE IF done.new_message /= <<>>
       THEN [done EXCEPT !.new_message_vec = Append(@, done.new_message)]
       ELSE done

RECURSIVE ProcessParagraphs(_, _, _, _)
ProcessParagraphs(pars, st, max_chars, overflow_checks) ==
    IF pars = <<>> THEN st
    ELSE ProcessParagraphs(Tail(pars),
                           ProcessParagraph(st, Head(pars), max_chars, overflow_checks),
                           max_chars, overflow_checks)

\* process_message on self.message = message; the new self.message, or a
\* panic, with the first_splits met on the way.
process_message(message, max_chars, overflow_checks) ==
    LET st0 == [new_message_vec |-> <<>>, new_message |-> <<>>, panicked |-> FALSE,
                first_splits |-> <<>>]
        st == ProcessParagraphs(message, st0, max_chars, overflow_checks)
    IN IF st.panicked THEN [kind |-> "panic", first_splits |-> st.first_splits]
       ELSE [kind |-> "ok", lines |-> st.new_message_vec,
             first_splits |-> st.first_splits]

----------------------------------------------------------------------------
(* lib.rs, text.rs: check_flash                                            *)

FLASH_TIME == 500

\* Instant::duration_since saturates at zero.
duration_since(later, earlier) == IF later >= earlier THEN later - earlier ELSE 0

\* check_flash with the stale test non-strict (>= instead of >).
check_flash_nonstrict(now_, then) ==
    LET time_since == duration_since(now_, then)
    IN IF time_since >= FLASH_TIME * 2
       THEN [result |-> TRUE, then |-> now_]
       ELSE [result |-> time_since > FLASH_TIME, then |-> then]

\* check_flash resetting after one period instead of two.
check_flash_early_reset(now_, then) ==
    LET time_since == duration_since(now_, then)
    IN IF time_since > FLASH_TIME
       THEN [result |-> TRUE, then |-> now_]
       ELSE [result |-> time_since > FLASH_TIME, then |-> then]

\* The returned bool and the value left in *then.
check_flash(now_, then) ==
    LET time_since == duration_since(now_, then)
    IN IF time_since > FLASH_TIME * 2
       THEN [result |-> TRUE, then |-> now_]
       ELSE [result |-> time_since > FLASH_TIME, then |-> then]

----------------------------------------------------------------------------
(* text.rs: place_art                                                      *)

\* f64 arithmetic, exactly.  A natural number is the sequence of its bits,
\* lowest first, without leading zeros; an f64 is a sign and a magnitude in
\* units of 2^-56, which holds every value place_art computes for a block
\* that has a first row, a font size of at least 1 and integer window sizes.

RECURSIVE Bits(_)
Bits(n) == IF n = 0 THEN <<>> ELSE <<n % 2>> \o Bits(n \div 2)

BitAt(a, i) == IF i <= Len(a) THEN a[i] ELSE 0

RECURSIVE Normal(_)
Normal(a) ==
    IF a = <<>> THEN a
    ELSE IF a[Len(a)] = 0 THEN Normal(SubSeq(a, 1, Len(a) - 1))
    ELSE a

ShiftLeft(a, n) == IF a = <<>> THEN a ELSE [i \in 1..n |-> 0] \o a

RECURSIVE AddFrom(_, _, _, _)
AddFrom(a, b, i, carry) ==
    IF i > Len(a) /\ i > Len(b) THEN Bits(carry)
    ELSE LET sum == BitAt(a, i) + BitAt(b, i) + carry
         IN <<sum % 2>> \o AddFrom(a, b, i + 1, sum \div 2)

BigAdd(a, b) == AddFrom(a, b, 1, 0)

\* a - b for a >= b.
RECURSIVE SubFrom(_, _, _, _)
SubFrom(a, b, i, borrow) ==
    IF i > Len(a) THEN <<>>
    ELSE LET d == BitAt(a, i) - BitAt(b, i) - borrow
         IN <<d % 2>> \o SubFrom(a, b, i + 1, IF d < 0 THEN 1 ELSE 0)

BigSub(a, b) == Normal(SubFrom(a, b, 1, 0))

RECURSIVE GreaterFrom(_, _, _)
GreaterFrom(a, b, i) ==
    IF i = 0 THEN FALSE
    ELSE IF a[i] /= b[i] THEN a[i] > b[i]
    ELSE GreaterFrom(a, b, i - 1)

\* a > b
BigGreater(a, b) ==
    IF Len(a) /= Len(b) THEN Len(a) > Len(b) ELSE GreaterFrom(a, b, Len(a))

\* a * k for a small k.
RECURSIVE TimesFrom(_, _, _, _)
TimesFrom(a, k, i, carry) ==
    IF i > Len(a) THEN Bits(carry)
    ELSE LET sum == a[i] * k + carry
         IN <<sum % 2>> \o TimesFrom(a, k, i + 1, sum \div 2)

BigTimes(a, k) == Normal(TimesFrom(a, k, 1, 0))

\* Round to p significant bits, ties to even.
RoundBits(a, p) ==
    IF Len(a) <= p THEN a
    ELSE LET d == Len(a) - p
             kept == SubSeq(a, d + 1, Len(a))
             half == a[d] = 1
             sticky == \E i \in 1..(d - 1) : a[i] = 1
             up == half /\ (sticky \/ kept[1] = 1)
         IN ShiftLeft(IF up THEN BigAdd(kept, <<1>>) ELSE kept, d)

\* The 53 significant bits of an f64 and the 24 of an f32.
RoundF64(a) == RoundBits(a, 53)
RoundF32(a) == RoundBits(a, 24)

\* a divided by a small k >= 1, from the highest bit down: the quotient and
\* the remainder.
RECURSIVE DivFrom(_, _, _, _)
DivFrom(a, k, i, rem) ==
    IF i = 0 THEN [q |-> <<>>, r |-> rem]
    ELSE LET cur == 2 * rem + a[i]
         IN IF cur >= k
            THEN LET rest == DivFrom(a, k, i - 1, cur - k)
                 IN [q |-> Append(rest.q, 1), r |-> rest.r]
            ELSE LET rest == DivFrom(a, k, i - 1, cur)
                 IN [q |-> Append(rest.q, 0), r |-> rest.r]

BigDiv(a, k) ==
    LET d == DivFrom(a, k, Len(a), 0)
    IN [q |-> Normal(d.q), r |-> d.r]

RECURSIVE FromBits(_)
FromBits(a) == IF a = <<>> THEN 0 ELSE a[1] + 2 * FromBits(Tail(a))

\* The value with a last bit added that says whether anything was cut off
\* below it: it rounds as the uncut value does when more than p + 1 bits
\* are left.
WithSticky(a, inexact) ==
    IF a = <<>> THEN a ELSE <<IF inexact THEN 1 ELSE 0>> \o a

\* a * 2.15: the f64 nearest to 2.15 is 4841369599423283 * 2^-51, that is
\* (18035507 * 2^28 + 53687091) * 2^-51.
Times_2_15(a) == BigAdd(ShiftLeft(BigTimes(a, 18035507), 28), BigTimes(a, 53687091))

RECURSIVE TrailingZeros(_)
TrailingZeros(a) ==
    IF a = <<>> \/ a[1] = 1 THEN 0 ELSE 1 + TrailingZeros(Tail(a))

\* (width / font_size as f64) in units of 2^-(shift + 1): the exact quotient
\* rounded once; shift is large enough to leave more than 54 bits.
F64Div(width, font_size, shift) ==
    LET d == BigDiv(ShiftLeft(Bits(width), shift), font_size)
    IN RoundF64(WithSticky(d.q, d.r /= 0))

\* ((width / font_size as f64) * 2.15) as usize, for font_size >= 1 and
\* width < 2^16: the rounded quotient, its rounded product with 2.15 (made on
\* the quotient without its low zero bits) and the cast, which cuts the
\* fraction off.
MaxCharacters(width, font_size) ==
    LET shift == 56 + Len(Bits(font_size))
        quotient == F64Div(width, font_size, shift)
        zeros == TrailingZeros(quotient)
        product == RoundF64(Times_2_15(SubSeq(quotient, zeros + 1, Len(quotient))))
        fraction_bits == shift + 52 - zeros
    IN IF Len(product) <= fraction_bits THEN 0
       ELSE FromBits(SubSeq(product, fraction_bits + 1, Len(product)))

\* The f64 nearest to 0.67 is 48278588005411720 * 2^-56 and the one nearest
\* to 0.23 is 16573246628723426 * 2^-56; each is given as high * 2^28 + low.
F64_0_67 == BigAdd(ShiftLeft(Bits(179851755), 28), Bits(139586440))
F64_0_23 == BigAdd(ShiftLeft(Bits(61740154), 28), Bits(236223202))

\* (n as f64 / 2.0) * (font_size as f64 * ratio): two rounded products; the
\* halving is exact.
HalfTimes(n, font_size, ratio) ==
    LET per_unit == RoundF64(BigTimes(ratio, font_size))
        twice == RoundF64(BigTimes(per_unit, n))
    IN SubSeq(twice, 2, Len(twice))

\* p - q in f64 for magnitudes p and q.
F64Sub(p, q) ==
    IF BigGreater(q, p)
    THEN [neg |-> TRUE, mag |-> RoundF64(BigSub(q, p))]
    ELSE [neg |-> FALSE, mag |-> RoundF64(BigSub(p, q))]

\* place_art centring on the longest row instead of the first one.
place_art_longest_row(win_size, art, font_size) ==
    IF Len(art) = 0 THEN [kind |-> "panic"]
    ELSE LET longest == CHOOSE n \in {Len(art[i]) : i \in 1..Len(art)} :
                            \A i \in 1..Len(art) : Len(art[i]) <= n
             mid_x == ShiftLeft(Bits(win_size.width), 55)
             mid_y == ShiftLeft(Bits(win_size.height), 55)
             art_mid_x == HalfTimes(longest, font_size, F64_0_67)
             art_mid_y == HalfTimes(Len(art), font_size, F64_0_23)
         IN [kind |-> "ok",
             x |-> F64Sub(mid_x, art_mid_x),
             y |-> F64Sub(mid_y, art_mid_y)]

\* The returned pair of f64.  art[0] on an empty slice panics (index out of
\* bounds).
place_art(win_size, art, font_size) ==
    IF Len(art) = 0 THEN [kind |-> "panic"]
    ELSE LET mid_x == ShiftLeft(Bits(win_size.width), 55)
             mid_y == ShiftLeft(Bits(win_size.height), 55)
             art_mid_x == HalfTimes(Len(art[1]), font_size, F64_0_67)
             art_mid_y == HalfTimes(Len(art), font_size, F64_0_23)
         IN [kind |-> "ok",
             x |-> F64Sub(mid_x, art_mid_x),
             y |-> F64Sub(mid_y, art_mid_y)]

WinSizes == {[width |-> 420, height |-> 120], [width |-> 800, height |-> 600],
             [width |-> 840, height |-> 120]}
FontSizes == {10, 24}
ArtBlocks == StringsUpTo(StringsUpTo(Letters, MaxArtCols), MaxArtRows)

----------------------------------------------------------------------------
(* text.rs: TermColor                                                      *)

\* A colour is <<r, g, b, a>>, each channel an integer n standing for the
\* f32 n / 2.
Colors == [1..4 -> 0..ColorLevels]

\* The f32 nearest to 0.241, 0.691 and 0.068, in units of 2^-27.
F32_0_241 == Bits(32346472)
F32_0_691 == Bits(92744448)
F32_0_068 == Bits(9126806)

\* The largest integer whose square is at most n (below 2^60): twice the
\* root of n \div 4, or one more.
RECURSIVE ISqrt(_)
ISqrt(n) ==
    IF n = <<>> THEN 0
    ELSE IF Len(n) <= 2 THEN 1
    ELSE CHOOSE r \in {2 * low + d : low \in {ISqrt(SubSeq(n, 3, Len(n)))}, d \in {0, 1}} :
            /\ ~BigGreater(BigTimes(Bits(r), r), n)
            /\ BigGreater(BigTimes(Bits(r + 1), r + 1), n)

\* f32::sqrt of s given in units of 2^-29, in units of 2^-30: the exact root
\* rounded once.  For 2^-6 <= s < 4, which holds every non-zero weighted_add
\* of channels 0, 0.5, 1 and 1.5.
F32Sqrt(s) ==
    LET n == ShiftLeft(s, 29)
        root == ISqrt(n)
        inexact == BigTimes(Bits(root), root) /= n
    IN RoundF32(WithSticky(Bits(root), inexact))

\* self[i] * self[i] * weight in units of 2^-29: the square is exact, the
\* product with the weight is rounded.
Weighted(channel, weight) == RoundF32(BigTimes(weight, channel * channel))

\* brightness() in units of 2^-31, every f32 operation rounded as it is made.
ComputedBrightness(c) ==
    LET weighted_add ==
            RoundF32(BigAdd(RoundF32(BigAdd(Weighted(c[1], F32_0_241),
                                            Weighted(c[2], F32_0_691))),
                            Weighted(c[3], F32_0_068)))
    IN RoundF32(BigTimes(F32Sqrt(weighted_add), c[4]))

\* The brightness of every colour with channels 0, 0.5, 1 and 1.5, computed
\* once.
BrightnessTable == {<<c, ComputedBrightness(c)>> : c \in [1..4 -> 0..3]}

\* TermColor::brightness
brightness(c) ==
    IF c \in [1..4 -> 0..3]
    THEN (CHOOSE entry \in BrightnessTable : entry[1] = c)[2]
    ELSE ComputedBrightness(c)

\* brighter_than with a non-strict comparison.
brighter_than_nonstrict(self, other) ==
    ~BigGreater(brightness(other), brightness(self))

brighter_than(self, other) == BigGreater(brightness(self), brightness(other))

----------------------------------------------------------------------------
(* Pure functions applied to inputs drawn from bounded sets.               *)

Pending == [kind |-> "pending"]

\* No wait loop is running.
FlashQuiet == now = 0 /\ start = 0 /\ flash_on = FALSE

\* No Terminal has been created.
TermQuiet ==
    /\ term = [active |-> FALSE]
    /\ run = [at |-> "none"]
    /\ last = [op |-> "none"]
    /\ screen = <<>>
    /\ build = [overflow_checks |-> FALSE]

InitSplit ==
    /\ \E x \in StringsUpTo(Letters, MaxWordLen), f \in 0..MaxBudget, r \in 0..MaxBudget :
          call = [fn |-> "split_word", x |-> x, first_split |-> f, rest_split |-> r]
    /\ ret = Pending

\* Messages with a whitespace character from outside MsgAlphabet: between
\* two words, alone, as a paragraph of its own between two others, and at
\* the end of one paragraph and the start of the next.
SeparatorMessages ==
    UNION {{<<"a", w, "b">>, <<w>>, <<"a", "\n", w, "\n", "b">>,
            <<"a", w, "\n", w, "b">>} : w \in OtherWhitespace}

InitReflow ==
    /\ \E m \in StringsUpTo(MsgAlphabet, MaxMsgLen) \cup SeparatorMessages,
          c \in 0..MaxCols, oc \in BOOLEAN :
          call = [fn |-> "process_message", message |-> m, max_chars |-> c,
                  overflow_checks |-> oc]
    /\ ret = Pending

ApplySplit ==
    /\ call.fn = "split_word"
    /\ ret = Pending
    /\ ret' = [kind |-> "ok",
               fragments |-> split_word(call.x, call.first_split, call.rest_split)]
    /\ UNCHANGED <<call, flashVars, termVars>>

\* new_message's first two statements: split on '\n', then process_message.
ApplyReflow ==
    /\ call.fn = "process_message"
    /\ ret = Pending
    /\ ret' = process_message(SplitNewline(call.message), call.max_chars,
                              call.overflow_checks)
    /\ UNCHANGED <<call, flashVars, termVars>>

InitFlash ==
    /\ \E t \in {0, 250}, e \in 0..MaxElapsed :
          call = [fn |-> "check_flash", now |-> t + e, then |-> t]
    /\ ret = Pending

ApplyFlash ==
    /\ call.fn = "check_flash"
    /\ ret = Pending
    /\ LET r == check_flash(call.now, call.then)
       IN ret' = [kind |-> "ok", result |-> r.result, then |-> r.then]
    /\ UNCHANGED <<call, flashVars, termVars>>

InitColor ==
    /\ \E a \in Colors, b \in Colors :
          call = [fn |-> "brighter_than", a |-> a, b |-> b]
    /\ ret = Pending

\* a.brighter_than(b) and b.brighter_than(a).
ApplyColor ==
    /\ call.fn = "brighter_than"
    /\ ret = Pending
    /\ ret' = [kind |-> "ok", ab |-> brighter_than(call.a, call.b),
               ba |-> brighter_than(call.b, call.a)]
    /\ UNCHANGED <<call, flashVars, termVars>>

InitArt ==
    /\ \E w \in WinSizes, art \in ArtBlocks, fs \in FontSizes :
          call = [fn |-> "place_art", win_size |-> w, art |-> art, font_size |-> fs]
    /\ ret = Pending

ApplyArt ==
    /\ call.fn = "place_art"
    /\ ret = Pending
    /\ ret' = place_art(call.win_size, call.art, call.font_size)
    /\ UNCHANGED <<call, flashVars, termVars>>

InitPure ==
    /\ InitSplit \/ InitReflow \/ InitFlash \/ InitColor \/ InitArt
    /\ FlashQuiet
    /\ TermQuiet

NextPure == ApplySplit \/ ApplyReflow \/ ApplyFlash \/ ApplyColor \/ ApplyArt

SpecPure == InitPure /\ [][NextPure]_vars

----------------------------------------------------------------------------
(* terminal.rs: the frames of wait_for_continue while it keeps waiting.    *)
(* Each render event takes Instant::now() and hands it to check_flash      *)
(* together with `start`.  Only differences of Instants are observable, so *)
(* when now passes ClockHorizon both Instants are moved back by start.     *)

\* Times between two frames, in ms: all well below FLASH_TIME.
FrameGaps == {50, 100, 250}

InitWait ==
    /\ call = [fn |-> "none"]
    /\ ret = Pending
    /\ now = 0
    /\ start = 0
    /\ flash_on = FALSE
    /\ TermQuiet

WaitFrame ==
    \E gap \in FrameGaps :
        LET n == now + gap
            shift == IF n > ClockHorizon THEN start ELSE 0
            r == check_flash(n - shift, start - shift)
        IN /\ now' = n - shift
           /\ start' = r.then
           /\ flash_on' = r.result
           /\ UNCHANGED <<pureVars, termVars>>

NextWait == WaitFrame

\* The event loop keeps delivering render events while the window is open.
SpecWait == InitWait /\ [][NextWait]_vars /\ WF_vars(WaitFrame)

\* C7: with frames much less than FLASH_TIME apart the prompt is off during the
\* first FLASH_TIME after a reset and on during the second, a reset happens
\* only out of the on phase, and off and on both recur forever.
C7_FlashDutyCycle ==
    /\ [](~flash_on => now - start <= FLASH_TIME)
    /\ [](flash_on => (now = start
                        \/ (now - start > FLASH_TIME /\ now - start <= 2 * FLASH_TIME)))
    /\ [][(now' = start' /\ now' /= now) => flash_on]_vars
    /\ []<>flash_on
    /\ []<>(~flash_on)

\* A frame late in the on phase of a cycle that followed a reset.
C7_Witness ==
    /\ flash_on
    /\ start > 0
    /\ now - start = 2 * FLASH_TIME

----------------------------------------------------------------------------
(* Properties of split_word.                                               *)

Applied(fn) == call.fn = fn /\ ret /= Pending

SplitApplied == Applied("split_word") /\ ret.kind = "ok"

BudgetOf(i, first_split, rest_split) == IF i = 1 THEN first_split ELSE rest_split

\* C1: for budgets first_split >= 1 and rest_split >= 1 the fragments
\* returned by split_word, concatenated in order, are the word itself.
C1_SplitRoundTrip ==
    (SplitApplied /\ call.first_split >= 1 /\ call.rest_split >= 1)
        => Flatten(ret.fragments) = call.x

\* A word cut into at least three fragments with two different budgets.
C1_Witness ==
    /\ SplitApplied
    /\ call.first_split >= 1 /\ call.rest_split >= 1
    /\ call.first_split /= call.rest_split
    /\ Len(ret.fragments) >= 3

\* C2 as stated: for every word (the empty one included) and budgets >= 1,
\* every fragment but the last is as long as its budget, the last is 1 to
\* rest_split long and no fragment is empty.
C2_FragmentLengthsOriginal ==
    (SplitApplied /\ call.first_split >= 1 /\ call.rest_split >= 1) =>
        LET fr == ret.fragments
            n == Len(fr)
        IN /\ n >= 1
           /\ \A i \in 1..(n - 1) :
                 Len(fr[i]) = BudgetOf(i, call.first_split, call.rest_split)
           /\ Len(fr[n]) >= 1 /\ Len(fr[n]) <= call.rest_split
           /\ \A i \in 1..n : fr[i] /= <<>>

\* C2 amended: for a non-empty word and budgets >= 1, every fragment but the
\* last is as long as its budget, the last is between 1 and its own budget
\* long (first_split when it is the only fragment, rest_split otherwise) and
\* no fragment is empty; the empty word yields the single empty fragment.
C2_FragmentLengths ==
    (SplitApplied /\ call.first_split >= 1 /\ call.rest_split >= 1) =>
        LET fr == ret.fragments
            n == Len(fr)
        IN IF call.x = <<>> THEN fr = << <<>> >>
           ELSE /\ n >= 1
                /\ \A i \in 1..(n - 1) :
                      Len(fr[i]) = BudgetOf(i, call.first_split, call.rest_split)
                /\ Len(fr[n]) >= 1
                /\ Len(fr[n]) <= BudgetOf(n, call.first_split, call.rest_split)
                /\ \A i \in 1..n : fr[i] /= <<>>

\* A word cut into full first and middle fragments and a shorter last one.
C2_Witness ==
    /\ SplitApplied
    /\ call.first_split >= 1 /\ call.rest_split >= 2
    /\ call.first_split /= call.rest_split
    /\ Len(ret.fragments) >= 3
    /\ Len(ret.fragments[Len(ret.fragments)]) < call.rest_split

\* C5: split_word called with first_split < 1 or rest_split < 1 fails with
\* an InvalidBudget error and returns no fragment list.
C5_InvalidBudget ==
    (Applied("split_word") /\ (call.first_split < 1 \/ call.rest_split < 1))
        => ret.kind = "InvalidBudget"

----------------------------------------------------------------------------
(* Properties of process_message (reflow).                                 *)

ReflowApplied == Applied("process_message")

RECURSIVE FlatMap(_, _)
FlatMap(Op(_), seqs) ==
    IF seqs = <<>> THEN <<>> ELSE Op(Head(seqs)) \o FlatMap(Op, Tail(seqs))

\* The words of the input, paragraph by paragraph.
InputWords(message) == FlatMap(SplitWhitespace, SplitNewline(message))

\* The space-delimited tokens of the emitted lines, line by line.
OutputTokens(lines) == FlatMap(SplitWhitespace, lines)

\* tokens is words with every word longer than max_chars cut into one or
\* more consecutive non-empty tokens and every other word kept whole.
RECURSIVE TokensMatch(_, _, _)
TokensMatch(tokens, words, max_chars) ==
    IF words = <<>> THEN tokens = <<>>
    ELSE IF tokens = <<>> THEN FALSE
    ELSE IF Len(Head(words)) <= max_chars
    THEN Head(tokens) = Head(words) /\ TokensMatch(Tail(tokens), Tail(words), max_chars)
    ELSE \E k \in 1..Len(tokens) :
            /\ Flatten(SubSeq(tokens, 1, k)) = Head(words)
            /\ TokensMatch(SubSeq(tokens, k + 1, Len(tokens)), Tail(words), max_chars)

\* C3: for max_chars >= 1 every line emitted by process_message is at most
\* max_chars characters long.
C3_LinesFit ==
    (ReflowApplied /\ ret.kind = "ok" /\ call.max_chars >= 1)
        => \A i \in 1..Len(ret.lines) : Len(ret.lines[i]) <= call.max_chars

\* C4: for max_chars >= 1 process_message emits lines whose non-whitespace
\* characters are those of the input in order, with every word no longer
\* than max_chars whole, once and in order as a space-delimited token.
C4_ReflowLosesNothing ==
    (ReflowApplied /\ call.max_chars >= 1) =>
        /\ ret.kind = "ok"
        /\ Flatten(OutputTokens(ret.lines)) = Flatten(InputWords(call.message))
        /\ TokensMatch(OutputTokens(ret.lines), InputWords(call.message), call.max_chars)

\* C12: for max_chars >= 1, whenever process_message meets an over-long
\* word with a non-empty accumulator, max_chars - (message_len + 1) is at
\* least 1 and the line pushed for the first fragment is max_chars long.
C12_FirstBudgetPositive ==
    (ReflowApplied /\ call.max_chars >= 1) =>
        \A i \in 1..Len(ret.first_splits) :
            /\ ret.first_splits[i].difference >= 1
            /\ Len(ret.first_splits[i].pushed) = 1
            /\ Len(ret.first_splits[i].pushed[1]) = call.max_chars

\* The letters of s, in order.  Every character of a message explored is a
\* letter or a whitespace character, so these are the characters of its
\* words, told without IsWhitespace.
LettersOf(s) == SelectSeq(s, LAMBDA c : c \in Letters)

\* lines is one run of consecutive lines per paragraph, in the order of the
\* paragraphs: the non-whitespace characters of a run are those of its
\* paragraph, a run holds nothing but letters and the joining space, and
\* a paragraph without words (without letters) has an empty run.
RECURSIVE ParagraphsApart(_, _)
ParagraphsApart(lines, paragraphs) ==
    IF paragraphs = <<>> THEN lines = <<>>
    ELSE \E k \in 0..Len(lines) :
            /\ Flatten(OutputTokens(SubSeq(lines, 1, k)))
                   = Flatten(SplitWhitespace(Head(paragraphs)))
            /\ LettersOf(Flatten(SubSeq(lines, 1, k))) = LettersOf(Head(paragraphs))
            /\ \A i \in 1..k : \A j \in 1..Len(lines[i]) :
                   lines[i][j] \in Letters \cup {" "}
            /\ SplitWhitespace(Head(paragraphs)) = <<>> => k = 0
            /\ LettersOf(Head(paragraphs)) = <<>> => k = 0
            /\ ParagraphsApart(SubSeq(lines, k + 1, Len(lines)), Tail(paragraphs))

\* C13: the lines process_message emits are the lines of its first paragraph,
\* then those of the second, and so on; no line holds words of two
\* paragraphs and a paragraph without words gives no line.  (A call that
\* panics emits no line at all.)
C13_ParagraphsApart ==
    (ReflowApplied /\ ret.kind = "ok")
        => ParagraphsApart(ret.lines, SplitNewline(call.message))

\* "a", a paragraph that is one no-break space, and "b" came out as the two
\* lines "a" and "b".
C13_Witness ==
    /\ ReflowApplied
    /\ ret.kind = "ok"
    /\ call.message = <<"a", "\n", " ", "\n", "b">>
    /\ ret.lines = <<<<"a">>, <<"b">>>>

----------------------------------------------------------------------------
(* Properties of check_flash, brighter_than and place_art.                 *)

FlashApplied == Applied("check_flash") /\ ret.kind = "ok"

\* C6: with elapsed = now - then, check_flash returns false and keeps then
\* when elapsed <= FLASH_TIME, returns true and keeps then when
\* FLASH_TIME < elapsed <= 2 * FLASH_TIME, and returns true and sets then
\* to now when elapsed > 2 * FLASH_TIME.
C6_FlashRegimes ==
    FlashApplied =>
        LET elapsed == call.now - call.then
        IN /\ elapsed <= FLASH_TIME
                => (ret.result = FALSE /\ ret.then = call.then)
           /\ (FLASH_TIME < elapsed /\ elapsed <= 2 * FLASH_TIME)
                => (ret.result = TRUE /\ ret.then = call.then)
           /\ elapsed > 2 * FLASH_TIME
                => (ret.result = TRUE /\ ret.then = call.now)

\* A call exactly two periods after the last toggle: true, without a reset.
C6_Witness ==
    /\ FlashApplied
    /\ call.now - call.then = 2 * FLASH_TIME
    /\ call.then > 0
    /\ ret.result = TRUE
    /\ ret.then = call.then

ColorApplied == Applied("brighter_than") /\ ret.kind = "ok"

\* C10: a.brighter_than(b) holds exactly when a's brightness exceeds b's;
\* it is false of a colour and itself, false both ways for two colours of
\* equal brightness, and never true both ways.
C10_BrighterThanStrict ==
    ColorApplied =>
        /\ ret.ab = BigGreater(brightness(call.a), brightness(call.b))
        /\ ret.ba = BigGreater(brightness(call.b), brightness(call.a))
        /\ (call.a = call.b => ~ret.ab)
        /\ (brightness(call.a) = brightness(call.b) => (~ret.ab /\ ~ret.ba))
        /\ ~(ret.ab /\ ret.ba)

\* Two different visible colours of equal brightness, compared both ways.
C10_Witness ==
    /\ ColorApplied
    /\ call.a /= call.b
    /\ brightness(call.a) = brightness(call.b)
    /\ brightness(call.a) /= <<>>
    /\ ~ret.ab /\ ~ret.ba

ArtApplied == Applied("place_art") /\ ret.kind = "ok"

\* v + p for an f64 v and a magnitude p, exactly.
PlusMagnitude(v, p) ==
    IF ~v.neg THEN [neg |-> FALSE, mag |-> BigAdd(v.mag, p)]
    ELSE IF BigGreater(v.mag, p) THEN [neg |-> TRUE, mag |-> BigSub(v.mag, p)]
    ELSE [neg |-> FALSE, mag |-> BigSub(p, v.mag)]

\* |u - v|, exactly.
Distance(u, v) ==
    IF u.neg /= v.neg THEN BigAdd(u.mag, v.mag)
    ELSE IF BigGreater(u.mag, v.mag) THEN BigSub(u.mag, v.mag)
    ELSE BigSub(v.mag, u.mag)

\* place_art for the same block and font in a window twice as wide.
Doubled == place_art([call.win_size EXCEPT !.width = 2 * @], call.art, call.font_size)

\* Half the width delta, width / 2, in units of 2^-56.
HalfDelta == ShiftLeft(Bits(call.win_size.width), 55)

\* x is computed from the first row only.
FromFirstRow ==
    ret.x = F64Sub(ShiftLeft(Bits(call.win_size.width), 55),
                   HalfTimes(Len(call.art[1]), call.font_size, F64_0_67))

\* C11 as stated: x is width/2 minus half the first row's length times
\* 0.67 * font_size, doubling the width adds exactly half the width delta
\* to x, and y does not depend on the width.
C11_CenteringOriginal ==
    ArtApplied =>
        /\ FromFirstRow
        /\ Doubled.x = PlusMagnitude(ret.x, HalfDelta)
        /\ Doubled.y = ret.y

\* C11 amended: x is width/2 minus half the first row's length times
\* 0.67 * font_size in f64, doubling the width adds half the width delta to
\* x up to f64 rounding (the error is at most 2^-52 times the larger |x|,
\* and none when the first row is empty), and y does not depend on the
\* width.
C11_Centering ==
    ArtApplied =>
        /\ FromFirstRow
        /\ LET error == Distance(Doubled.x, PlusMagnitude(ret.x, HalfDelta))
               larger == IF BigGreater(ret.x.mag, Doubled.x.mag)
                         THEN ret.x.mag ELSE Doubled.x.mag
           IN /\ ~BigGreater(ShiftLeft(error, 52), larger)
              /\ call.art[1] = <<>> => error = <<>>
        /\ Doubled.y = ret.y

\* A block whose first row is not its longest, where doubling the width
\* rounds x differently.
C11_Witness ==
    /\ ArtApplied
    /\ Len(call.art) >= 2
    /\ call.art[1] /= <<>>
    /\ Len(call.art[1]) < Len(call.art[2])
    /\ Doubled.x /= PlusMagnitude(ret.x, HalfDelta)

\* C9: split_word on the empty word, process_message on an empty message
\* and place_art on a block of no rows each return a result.
C9_EmptyInputsDefined ==
    /\ (Applied("split_word") /\ call.x = <<>>) => ret.kind = "ok"
    /\ (Applied("process_message") /\ call.message = <<>>) => ret.kind = "ok"
    /\ (Applied("place_art") /\ call.art = <<>>) => ret.kind = "ok"

----------------------------------------------------------------------------
(* terminal.rs: the Terminal and its blocking methods.                     *)
(* A step runs the code between two calls of self.window.next(): a public  *)
(* method runs up to the first next() of its first loop, a loop step takes *)
(* what next() returns and runs up to the following next() or the return.  *)
(* Instant::now() is not kept: whether a timer has run out is the          *)
(* environment's choice.                                                   *)

DEFAULT_ART_FONT == "LeagueMono-Regular.ttf"
PRESS_TO_CONTINUE ==
    <<"P","r","e","s","s"," ","F","o","l","l","o","w"," ","t","o"," ",
      "C","o","n","t","i","n","u","e">>

FontChoices == {[font |-> "LeagueSpartan-Regular.ttf", size |-> 32],
                [font |-> "LeagueMono-Regular.ttf", size |-> 24]}
ColorChoices == {[bg |-> "DARK_GREY", fg |-> "GOLD"],
                 [bg |-> "DARK_GREY", fg |-> "CRIMSON"]}
TermWinSizes == {[width |-> 30, height |-> 120], [width |-> 60, height |-> 120]}
Messages == {<<"a", " ", "b">>, <<"a", "b", " ", "a", "b", "c">>, <<"a", "\n", "a", "b">>}
ArtStrings == {<<"a", "b", "\n", "a", "b">>}

\* What self.window.next() can hand out while the window is open.  Close
\* (the window is closed) and Escape (the press of Esc on a window built with
\* exit_on_esc(true)) make every later next() return None; Resize is the
\* user giving the window another size.
Events ==
    {[kind |-> k] : k \in {"Render", "Close", "Escape", "Return", "Backspace", "Other"}}
    \cup {[kind |-> "Text", text |-> c] : c \in Letters}
    \cup {[kind |-> "Resize", size |-> size] : size \in TermWinSizes}

None == [kind |-> "None"]
Some(v) == [kind |-> "Some", value |-> v]
Unit == [kind |-> "Unit"]

Idle == [at |-> "idle"]
Panicked == [at |-> "panic"]

\* load_font: the glyph cache of a font file.
load_font(name) == [font |-> name]

\* Terminal::new
new(size, bg, fg, font, font_size) ==
    [active |-> TRUE,
     window |-> [open |-> TRUE, size |-> size],
     bg_color |-> bg,
     fg_color |-> fg,
     glyphs |-> load_font(font),
     font |-> font,
     art_font |-> DEFAULT_ART_FONT,
     font_size |-> font_size,
     art_font_size |-> 10,
     art_mode |-> FALSE,
     message |-> <<>>,
     input |-> <<>>]

\* MaxCharacters for the window widths and font sizes met here, computed
\* once.
MaxCharactersTable ==
    {<<size.width, f.size, MaxCharacters(size.width, f.size)>> :
        size \in TermWinSizes, f \in FontChoices}

\* get_max_characters
get_max_characters(t) ==
    LET width == t.window.size.width
    IN IF \E entry \in MaxCharactersTable : entry[1] = width /\ entry[2] = t.font_size
       THEN (CHOOSE entry \in MaxCharactersTable :
                entry[1] = width /\ entry[2] = t.font_size)[3]
       ELSE MaxCharacters(width, t.font_size)

\* The (i, j) pairs of type_message's loops: `for j in 1..line_len` for
\* every line i, in order.
RECURSIVE TypePositionsFrom(_, _)
TypePositionsFrom(message, i) ==
    IF i > Len(message) THEN <<>>
    ELSE [j \in 1..(Len(message[i]) - 1) |-> <<i, j>>] \o TypePositionsFrom(message, i + 1)

TypePositions(message) == TypePositionsFrom(message, 1)

\* typed_message when iteration (i, j) draws: the lines before i as their
\* loops left them, then &line[..=j] followed by "[]".
TypedMessage(message, i, j) ==
    [n \in 1..i |->
        IF n < i
        THEN (IF Len(message[n]) >= 2 THEN message[n] ELSE <<>>)
        ELSE SubSeq(message[i], 1, j + 1) \o <<"[", "]">>]

\* The state a method is left in after type_message has run to its end:
\* ask goes on to wait_for_input, tell to wait_for_continue, show to
\* wait_for_timer, each taking `active` from self.active.
EnterWait(t, op) ==
    IF op = "ask"
    THEN [term |-> t,
          run |-> [at |-> "wait_for_input", op |-> op, active |-> t.active,
                   input_string |-> <<>>]]
    ELSE IF op = "tell"
    THEN [term |-> [t EXCEPT !.input = PRESS_TO_CONTINUE],
          run |-> [at |-> "wait_for_continue", op |-> op, active |-> t.active]]
    ELSE [term |-> t,
          run |-> [at |-> "wait_for_timer", op |-> op, active |-> t.active]]

\* type_message up to its first next(); with nothing to type it is over at
\* once.
EnterType(t, op) ==
    IF TypePositions(t.message) = <<>>
    THEN EnterWait(t, op)
    ELSE [term |-> t,
          run |-> [at |-> "type_message", op |-> op, active |-> t.active, k |-> 1]]

\* new_message
new_message(t, message, op, overflow_checks) ==
    LET split == SplitNewline(message)
        processed == process_message(split, get_max_characters(t), overflow_checks)
    IN IF processed.kind = "panic"
       THEN [term |-> [t EXCEPT !.message = split], run |-> Panicked]
       ELSE EnterType([t EXCEPT !.message = processed.lines, !.input = <<>>], op)

\* The head of ask, show and tell: leave art mode.
LeaveArtMode(t) ==
    IF t.art_mode
    THEN [t EXCEPT !.glyphs = load_font(t.font), !.art_mode = FALSE]
    ELSE t

Calling == run.at = "idle"

Continue(next) ==
    /\ term' = next.term
    /\ run' = next.run
    /\ UNCHANGED <<last, screen>>

Return(t, op, value) ==
    /\ term' = t
    /\ run' = Idle
    /\ last' = [op |-> op, ret |-> value]
    /\ UNCHANGED screen

\* The end of a loop (`self.active = active;`) and of the method around it.
\* ask returns Some(self.input.clone()).
LoopReturn(t, active) ==
    LET t1 == [t EXCEPT !.active = active]
    IN Return(t1, run.op, IF run.op = "ask" THEN Some(t1.input) ELSE Unit)

\* The window after next() has handed out e, and e.close(|_| { active =
\* false; }), which runs on Close only.
Observe(e) ==
    [term |-> [term EXCEPT !.window.open = (e.kind \notin {"Close", "Escape"}),
                           !.window.size = IF e.kind = "Resize" THEN e.size ELSE @],
     active |-> run.active /\ e.kind /= "Close"]

\* draw_2d runs its closure on render events only.
Draw(e, lines) == screen' = IF e.kind = "Render" THEN lines ELSE screen

Rest == UNCHANGED <<pureVars, flashVars, build>>

Ask ==
    /\ Calling
    /\ \E message \in Messages :
          IF term.active
          THEN Continue(new_message(LeaveArtMode(term), message, "ask",
                                    build.overflow_checks))
          ELSE Return(term, "ask", None)
    /\ Rest

Show ==
    /\ Calling
    /\ \E message \in Messages :
          IF term.active
          THEN Continue(new_message(LeaveArtMode(term), message, "show",
                                    build.overflow_checks))
          ELSE Return(term, "show", Unit)
    /\ Rest

Tell ==
    /\ Calling
    /\ \E message \in Messages :
          IF term.active
          THEN Continue(new_message(LeaveArtMode(term), message, "tell",
                                    build.overflow_checks))
          ELSE Return(term, "tell", Unit)
    /\ Rest

DisplayArt ==
    /\ Calling
    /\ \E art \in ArtStrings :
          IF term.active
          THEN LET t1 == IF ~term.art_mode
                         THEN [term EXCEPT !.glyphs = load_font(term.art_font),
                                           !.art_mode = TRUE]
                         ELSE term
                   t2 == [t1 EXCEPT !.message = SplitNewline(art), !.input = <<>>]
               IN Continue([term |-> t2,
                            run |-> [at |-> "show_art", op |-> "display_art",
                                     active |-> t2.active]])
          ELSE Return(term, "display_art", Unit)
    /\ Rest

\* resize without its `if self.active`.
ResizeUnguarded ==
    /\ Calling
    /\ \E new_size \in TermWinSizes :
          Return([term EXCEPT !.window = [open |-> TRUE, size |-> new_size]],
                 "resize", Unit)
    /\ Rest

Resize ==
    /\ Calling
    /\ \E new_size \in TermWinSizes :
          Return(IF term.active
                 THEN [term EXCEPT !.window = [open |-> TRUE, size |-> new_size]]
                 ELSE term,
                 "resize", Unit)
    /\ Rest

\* set_font loading the new font into glyphs whatever the mode.
SetFontAlwaysLoads ==
    /\ Calling
    /\ \E c \in FontChoices :
          Return(IF term.active
                 THEN [term EXCEPT !.glyphs = load_font(c.font),
                                   !.font = c.font,
                                   !.font_size = c.size]
                 ELSE term,
                 "set_font", Unit)
    /\ Rest

SetFont ==
    /\ Calling
    /\ \E c \in FontChoices :
          Return(IF term.active
                 THEN [term EXCEPT !.glyphs = IF ~term.art_mode THEN load_font(c.font) ELSE @,
                                   !.font = c.font,
                                   !.font_size = c.size]
                 ELSE term,
                 "set_font", Unit)
    /\ Rest

SetArtFont ==
    /\ Calling
    /\ \E c \in FontChoices :
          Return(IF term.active
                 THEN [term EXCEPT !.glyphs = IF term.art_mode THEN load_font(c.font) ELSE @,
                                   !.art_font = c.font,
                                   !.art_font_size = c.size]
                 ELSE term,
                 "set_art_font", Unit)
    /\ Rest

SetColors ==
    /\ Calling
    /\ \E c \in ColorChoices :
          Return([term EXCEPT !.bg_color = c.bg, !.fg_color = c.fg],
                 "set_colors", Unit)
    /\ Rest

\* One iteration of type_message's inner loop.
TypeStep ==
    /\ run.at = "type_message"
    /\ LET positions == TypePositions(term.message)
           pos == positions[run.k]
           Advance(t, active) ==
               IF run.k < Len(positions)
               THEN [term |-> t, run |-> [run EXCEPT !.k = @ + 1, !.active = active]]
               ELSE EnterWait([t EXCEPT !.active = active], run.op)
       IN IF term.window.open
          THEN \E e \in Events :
                  LET o == Observe(e)
                      next == Advance(o.term, o.active)
                  IN /\ term' = next.term
                     /\ run' = next.run
                     /\ Draw(e, TypedMessage(term.message, pos[1], pos[2]))
                     /\ UNCHANGED last
          ELSE Continue(Advance(term, run.active))
    /\ Rest

\* String::pop
Pop(str) == IF str = <<>> THEN str ELSE SubSeq(str, 1, Len(str) - 1)

\* wait_for_input accepting Return on an empty input_string as well.
WaitInputStepAcceptsEmpty ==
    /\ run.at = "wait_for_input"
    /\ IF term.window.open
       THEN \E e \in Events :
               /\ e.kind = "Text" => Len(run.input_string) < MaxInput
               /\ LET o == Observe(e)
                      input_string == IF e.kind = "Text"
                                      THEN run.input_string \o <<e.text>>
                                      ELSE IF e.kind = "Backspace"
                                      THEN Pop(run.input_string)
                                      ELSE run.input_string
                      input_accepted == e.kind = "Return"
                  IN IF input_accepted
                     THEN /\ LoopReturn([o.term EXCEPT !.input = input_string], o.active)
                     ELSE /\ term' = o.term
                          /\ run' = [run EXCEPT !.active = o.active,
                                                !.input_string = input_string]
                          /\ Draw(e, term.message)
                          /\ UNCHANGED last
       ELSE LoopReturn(term, run.active)
    /\ Rest

\* One iteration of wait_for_input's loop, or its end when next() is None.
WaitInputStep ==
    /\ run.at = "wait_for_input"
    /\ IF term.window.open
       THEN \E e \in Events :
               /\ e.kind = "Text" => Len(run.input_string) < MaxInput
               /\ LET o == Observe(e)
                      input_string == IF e.kind = "Text"
                                      THEN run.input_string \o <<e.text>>
                                      ELSE IF e.kind = "Backspace"
                                      THEN Pop(run.input_string)
                                      ELSE run.input_string
                      input_accepted == e.kind = "Return" /\ input_string /= <<>>
                  IN IF input_accepted
                     THEN /\ LoopReturn([o.term EXCEPT !.input = input_string], o.active)
                     ELSE /\ term' = o.term
                          /\ run' = [run EXCEPT !.active = o.active,
                                                !.input_string = input_string]
                          /\ Draw(e, term.message)
                          /\ UNCHANGED last
       ELSE LoopReturn(term, run.active)
    /\ Rest

\* One iteration of wait_for_continue's loop, or its end.
WaitContinueStep ==
    /\ run.at = "wait_for_continue"
    /\ IF term.window.open
       THEN \E e \in Events :
               LET o == Observe(e)
                   ready == e.kind = "Return"
               IN IF ready
                  THEN LoopReturn(o.term, o.active)
                  ELSE /\ term' = o.term
                       /\ run' = [run EXCEPT !.active = o.active]
                       /\ Draw(e, term.message)
                       /\ UNCHANGED last
       ELSE LoopReturn(term, run.active)
    /\ Rest

\* One iteration of a timed loop: `if now.duration_since(start) > timer
\* { break; }` comes after the close check and before the draw.
TimedStep ==
    IF term.window.open
    THEN \E e \in Events, expired \in BOOLEAN :
            LET o == Observe(e)
            IN IF expired
               THEN LoopReturn(o.term, o.active)
               ELSE /\ term' = o.term
                    /\ run' = [run EXCEPT !.active = o.active]
                    /\ Draw(e, term.message)
                    /\ UNCHANGED last
    ELSE LoopReturn(term, run.active)

WaitTimerStep ==
    /\ run.at = "wait_for_timer"
    /\ TimedStep
    /\ Rest

ShowArtStep ==
    /\ run.at = "show_art"
    /\ TimedStep
    /\ Rest

Init ==
    /\ call = [fn |-> "none"]
    /\ ret = Pending
    /\ FlashQuiet
    /\ \E size \in TermWinSizes, c \in ColorChoices, f \in FontChoices :
          term = new(size, c.bg, c.fg, f.font, f.size)
    /\ run = Idle
    /\ last = [op |-> "new"]
    /\ screen = <<>>
    /\ build \in [overflow_checks : BOOLEAN]

Next ==
    \/ Ask \/ Show \/ Tell \/ DisplayArt
    \/ Resize \/ SetFont \/ SetArtFont \/ SetColors
    \/ TypeStep \/ WaitInputStep \/ WaitContinueStep \/ WaitTimerStep \/ ShowArtStep

Spec == Init /\ [][Next]_vars

----------------------------------------------------------------------------
(* Properties of the Terminal.                                             *)

\* C8: an ask that ends with the window closed (before it was called or
\* while it typed or waited, by a close event or by Esc) has returned None;
\* ask returns Some(input) only for input the user submitted, which is never
\* the empty string.
C8_AskNoneWhenClosed ==
    (run.at = "idle" /\ last.op = "ask") =>
        /\ (~term.active \/ ~term.window.open) => last.ret = None
        /\ last.ret.kind = "Some" => last.ret.value /= <<>>

\* The characters of the line being typed that a typing frame shows before
\* the "[]" cursor.
Revealed(frame) ==
    LET typed == frame[Len(frame)]
    IN SubSeq(typed, 1, Len(typed) - 2)

\* A step of type_message that draws a frame.
TypingFrame == run.at = "type_message" /\ screen' /= screen

\* C14: every frame type_message draws shows the lines typed before whole
\* and a prefix of the line being typed; the first iteration on a line
\* shows its first character alone, and a frame that follows a frame of the
\* same line shows exactly one character more.
C14_TypesCharacterByCharacter ==
    [][TypingFrame =>
          LET positions == TypePositions(term.message)
              i == Len(screen')
              first == run.k = 1 \/ positions[run.k - 1][1] /= i
          IN /\ \A n \in 1..(i - 1) : screen'[n] = term.message[n]
             /\ Revealed(screen') = SubSeq(term.message[i], 1, Len(Revealed(screen')))
             /\ first => Len(Revealed(screen')) = 1
             /\ (~first /\ Len(screen) = i /\ Len(screen[i]) >= 2)
                    => Len(Revealed(screen')) = Len(Revealed(screen)) + 1]_vars

\* The loops around self.window.next().
EventLoops ==
    {"type_message", "wait_for_input", "wait_for_continue", "wait_for_timer", "show_art"}

\* C15: from a state with active = false no step makes active true or
\* changes anything of the terminal but bg_color and fg_color, which only
\* set_colors changes, and an ask called there returns None; active falls
\* from true to false only at the end of an event loop whose window a close
\* event has closed.
C15_ClosedAbsorbing ==
    [][/\ ~term.active =>
            /\ ~term'.active
            /\ [term' EXCEPT !.bg_color = term.bg_color,
                             !.fg_color = term.fg_color] = term
            /\ term' /= term => (Calling /\ last'.op = "set_colors")
            /\ (Calling /\ last'.op = "ask") => last'.ret = None
       /\ (term.active /\ ~term'.active) =>
            /\ run.at \in EventLoops
            /\ ~term'.window.open]_vars

\* ask has been called on a terminal whose window a close event had closed,
\* and returned None.
C15_Witness ==
    /\ ~term.active
    /\ ~term.window.open
    /\ Calling
    /\ last.op = "ask"
    /\ last.ret = None

\* The font glyphs has to hold in the current mode.
ExpectedFont == IF term.art_mode THEN term.art_font ELSE term.font

\* A step in which display_art starts.
StartsDisplayArt == Calling /\ run'.at = "show_art"

\* A step in which ask, show or tell starts.
StartsMessage == Calling /\ run'.at \notin {"idle", "show_art"}

\* C16: glyphs is always the font of the mode, art_font in art mode and font
\* otherwise; art_mode is false after new, true once display_art has started,
\* false once ask, show or tell has started, and no other step changes it.
C16_GlyphsMatchMode ==
    /\ (run.at = "idle" /\ last.op = "new") => ~term.art_mode
    /\ [](term.glyphs = load_font(ExpectedFont))
    /\ [][/\ StartsDisplayArt => term'.art_mode
          /\ StartsMessage => ~term'.art_mode
          /\ ~(StartsDisplayArt \/ StartsMessage) => term'.art_mode = term.art_mode]_vars

\* In art mode with an art_font that set_art_font chose and that differs from
\* font: glyphs holds art_font.
C16_Witness ==
    /\ term.art_mode
    /\ term.font /= term.art_font
    /\ term.art_font /= DEFAULT_ART_FONT
    /\ term.glyphs = load_font(term.art_font)
    /\ Calling

\* C17: while wait_for_input runs on an open window, it ends only with a
\* non-empty input_string, which is then self.input and what ask returns;
\* otherwise input_string stays, loses its last character (nothing when
\* empty) or gains one typed character at its end, and self.input stays;
\* when the window is closed it ends with self.input as it was.
C17_InputAcceptance ==
    [][run.at = "wait_for_input" =>
          IF run'.at = "idle"
          THEN IF term.window.open
               THEN /\ run.input_string /= <<>>
                    /\ term'.input = run.input_string
                    /\ last' = [op |-> "ask", ret |-> Some(run.input_string)]
               ELSE term'.input = term.input
          ELSE /\ run'.at = "wait_for_input"
               /\ term'.input = term.input
               /\ \/ run'.input_string = run.input_string
                  \/ run'.input_string = Pop(run.input_string)
                  \/ \E c \in Letters : run'.input_string = Append(run.input_string, c)
               /\ run.input_string = <<>> => Len(run'.input_string) \in {0, 1}]_vars

\* ask has returned an input of two different characters.
C17_Witness ==
    /\ Calling
    /\ last.op = "ask"
    /\ last.ret = Some(<<"b", "a">>)
    /\ term.input = <<"b", "a">>

====
